---- MODULE Spec2Model ----
(***************************************************************************)
(* A model of todoapp.py: the TodoList store (tasks held in memory, the    *)
(* todo.json file) and the menu loop of main(), one action per prompt.     *)
(*                                                                         *)
(* Python values are represented as follows.                               *)
(*   str            a TLA+ string                                          *)
(*   None | str     <<>> for None, <<s>> for the string s                  *)
(*   dict (a task)  a record with the six task keys                        *)
(*   dict (other)   a record with other keys (JSON that is no task)        *)
(*   datetime       [day, tod]: day number of January 2000 and time of     *)
(*                  day, 0 for 00:00:00 and 1 for 12:00:00                 *)
(* history is no state of the program: it records what delete_task and    *)
(* complete_task have done, for the properties that speak of earlier      *)
(* calls, and only in the specification that sets it to be kept.          *)
(* The file is [st, doc]: st says whether todo.json is missing, is no JSON *)
(* text, is no decodable text at all, or is JSON; doc is then the list of  *)
(* JSON objects, every value of which is the JSON token as written.        *)
(***************************************************************************)
EXTENDS Integers, Sequences, FiniteSets, TLC

\* Bounds of the model.
MaxTasks == 2
MaxDay == 3

VARIABLES tasks, file, pc, locals, now, out, shown, history

vars == <<tasks, file, pc, locals, now, out, shown, history>>

----------------------------------------------------------------------------
\* Text conversions, over the lines the model types in.

\* str.strip()
strip(s) ==
  CASE s = " " -> ""
    [] s = " milk " -> "milk"
    [] s = " 1 " -> "1"
    [] s = " y " -> "y"
    [] OTHER -> s

\* str.lower()
lower(s) ==
  CASE s = "High" -> "high"
    [] s = "LOW" -> "low"
    [] s = "Y" -> "y"
    [] s = "N" -> "n"
    [] s = "Milk" -> "milk"
    [] OTHER -> s

\* str.capitalize()
capitalize(s) ==
  CASE s = "high" -> "High"
    [] s = "low" -> "Low"
    [] s = "medium" -> "Medium"
    [] OTHER -> s

\* The January 2000 days the model knows.
DayNumbers == 1..9

\* "%Y-%m-%d" of a day
DateText(d) == "2000-01-0" \o ToString(d)

\* The same day written without zero padding, which strptime also accepts.
ShortDateText(d) == "2000-1-" \o ToString(d)

\* datetime.strptime(s, "%Y-%m-%d"): ok is FALSE where it raises ValueError.
strptime(s) ==
  IF \E d \in DayNumbers : s \in {DateText(d), ShortDateText(d)}
  THEN [ok |-> TRUE,
        value |-> [day |-> CHOOSE d \in DayNumbers :
                             s \in {DateText(d), ShortDateText(d)},
                   tod |-> 0]]
  ELSE [ok |-> FALSE, value |-> [day |-> 0, tod |-> 0]]

\* datetime.__lt__
Before(a, b) == a.day < b.day \/ (a.day = b.day /\ a.tod < b.tod)

\* datetime.strftime("%Y-%m-%d %H:%M:%S")
strftime(t) == DateText(t.day) \o (IF t.tod = 0 THEN " 00:00:00" ELSE " 12:00:00")

\* The ids the model can type or store.
IdNumbers == 0..(MaxTasks + 2)

\* int(s): ok is FALSE where it raises ValueError.
int(s) ==
  IF \E n \in IdNumbers : ToString(n) = s
  THEN [ok |-> TRUE, value |-> CHOOSE n \in IdNumbers : ToString(n) = s]
  ELSE [ok |-> FALSE, value |-> 0]

\* Python truth of a value that is None or a string.
Truthy(v) == v # <<>> /\ v[1] # ""

----------------------------------------------------------------------------
\* Tasks.

TaskKeys == {"id", "description", "priority", "due_date", "completed", "created_at"}

\* Whether a dict of the list has the keys the methods subscript.
IsTask(t) == DOMAIN t = TaskKeys

Indices(ts) == 1..Len(ts)

Min(S) == CHOOSE x \in S : \A y \in S : x <= y

----------------------------------------------------------------------------
\* JSON, as json.dump writes it and json.load reads it.

\* The JSON token of a str.
JsonString(s) == "\"" \o s \o "\""

\* The texts a str field of the model can hold.
Texts ==
  {"", "milk", "eggs", "Milk", "high", "low", "medium", "null", "true"}
    \cup {DateText(d) : d \in DayNumbers}
    \cup {ShortDateText(d) : d \in DayNumbers}
    \cup {strftime([day |-> d, tod |-> h]) : d \in DayNumbers, h \in 0..1}

\* The str a JSON string token denotes.
ParseJsonString(tok) == CHOOSE s \in Texts : JsonString(s) = tok

\* json.dump of an element were it to write a task's due date as
\* `due_date or ""`: None is written as the empty string.
dump_object_blank_due(t) ==
  IF IsTask(t)
  THEN [id |-> ToString(t.id),
        description |-> JsonString(t.description),
        priority |-> JsonString(t.priority),
        due_date |-> IF t.due_date = <<>> THEN JsonString("")
                     ELSE JsonString(t.due_date[1]),
        completed |-> IF t.completed THEN "true" ELSE "false",
        created_at |-> JsonString(t.created_at)]
  ELSE [k \in DOMAIN t |-> ToString(t[k])]

\* json.dump of one element of self.tasks.
dump_object(t) ==
  IF IsTask(t)
  THEN [id |-> ToString(t.id),
        description |-> JsonString(t.description),
        priority |-> JsonString(t.priority),
        due_date |-> IF t.due_date = <<>> THEN "null" ELSE JsonString(t.due_date[1]),
        completed |-> IF t.completed THEN "true" ELSE "false",
        created_at |-> JsonString(t.created_at)]
  ELSE [k \in DOMAIN t |-> ToString(t[k])]

\* json.load of one JSON object.
load_object(o) ==
  IF DOMAIN o = TaskKeys
  THEN [id |-> int(o.id).value,
        description |-> ParseJsonString(o.description),
        priority |-> ParseJsonString(o.priority),
        due_date |-> IF o.due_date = "null" THEN <<>>
                     ELSE <<ParseJsonString(o.due_date)>>,
        completed |-> (o.completed = "true"),
        created_at |-> ParseJsonString(o.created_at)]
  ELSE [k \in DOMAIN o |-> int(o[k]).value]

\* json.dump(self.tasks, f, indent=4)
json_dump(ts) == [i \in Indices(ts) |-> dump_object(ts[i])]

\* json.load(f) of a JSON document
json_load(doc) == [i \in Indices(doc) |-> load_object(doc[i])]

\* todo.json: absent; text that is no JSON (an empty or cut-off file too);
\* bytes that are no text; a JSON document.
MissingFile == [st |-> "missing", doc |-> <<>>]
GarbledFile == [st |-> "garbled", doc |-> <<>>]
UndecodableFile == [st |-> "undecodable", doc |-> <<>>]
JsonFile(doc) == [st |-> "json", doc |-> doc]

\* A JSON document that is a list but no list of task records: [{"junk": 1}].
JunkDoc == <<[junk |-> "1"]>>

----------------------------------------------------------------------------
\* TodoList.

\* load_tasks were it to add what it reads to the list it has
\* (self.tasks += json.load(f)).
load_tasks_extending(ts, f) ==
  CASE f.st = "json" ->
         [ok |-> TRUE, tasks |-> ts \o json_load(f.doc), out |-> "Tasks loaded successfully!"]
    [] f.st \in {"missing", "garbled"} ->
         [ok |-> TRUE, tasks |-> <<>>, out |-> ""]
    [] OTHER ->
         [ok |-> FALSE, tasks |-> ts, out |-> "UnicodeDecodeError"]

\* load_tasks: the list it leaves in self.tasks, what it prints, and
\* whether it returns (ok) or lets an exception out (UnicodeDecodeError is
\* neither FileNotFoundError nor JSONDecodeError).
load_tasks(ts, f) ==
  CASE f.st = "json" ->
         [ok |-> TRUE, tasks |-> json_load(f.doc), out |-> "Tasks loaded successfully!"]
    [] f.st \in {"missing", "garbled"} ->
         [ok |-> TRUE, tasks |-> <<>>, out |-> ""]
    [] OTHER ->
         [ok |-> FALSE, tasks |-> ts, out |-> "UnicodeDecodeError"]

\* save_tasks: io is what the file system does with the write. "ok": the
\* document is written. "denied": open() raises and the file is as it was.
\* "cut": open() has truncated the file and the write raises part-way.
save_tasks(ts, f, io) ==
  CASE io = "ok" ->
         [ok |-> TRUE, file |-> JsonFile(json_dump(ts)), out |-> "Tasks saved successfully!"]
    [] io = "denied" ->
         [ok |-> FALSE, file |-> f, out |-> "OSError"]
    [] OTHER ->
         [ok |-> FALSE, file |-> GarbledFile, out |-> "OSError"]

\* add_task were it to insert the task at the front of the list.
add_task_at_front(ts, description, priority, due_date, clock) ==
  [tasks |-> <<[id |-> Len(ts) + 1,
                description |-> description,
                priority |-> lower(priority),
                due_date |-> due_date,
                completed |-> FALSE,
                created_at |-> strftime(clock)]>> \o ts,
   out |-> "Added task"]

\* add_task
add_task(ts, description, priority, due_date, clock) ==
  [tasks |-> Append(ts, [id |-> Len(ts) + 1,
                         description |-> description,
                         priority |-> lower(priority),
                         due_date |-> due_date,
                         completed |-> FALSE,
                         created_at |-> strftime(clock)]),
   out |-> "Added task"]

\* One printed row of display_tasks (the table's columns).
Row(t, clock) ==
  [id |-> t.id,
   status |-> IF t.completed THEN "Done" ELSE "Pending",
   priority |-> capitalize(t.priority),
   due_date |-> IF ~Truthy(t.due_date) THEN "No deadline"
                ELSE IF ~t.completed /\ Before(strptime(t.due_date[1]).value, clock)
                     THEN "OVERDUE: " \o t.due_date[1]
                     ELSE t.due_date[1],
   description |-> t.description]

\* Whether display_tasks skips the element.
Hidden(t, show_completed) == t.completed /\ ~show_completed

\* Whether display_tasks raises on the element: KeyError on a dict that is
\* no task, ValueError on a due date strptime cannot parse.
RowRaises(t, show_completed) ==
  \/ ~IsTask(t)
  \/ /\ ~Hidden(t, show_completed)
     /\ Truthy(t.due_date)
     /\ ~t.completed
     /\ ~strptime(t.due_date[1]).ok

\* display_tasks: the rows printed, in order, up to the element it raises on.
display_tasks(ts, show_completed, clock) ==
  IF ts = <<>>
  THEN [ok |-> TRUE, rows |-> <<>>, out |-> "No tasks found!"]
  ELSE LET bad == {i \in Indices(ts) : RowRaises(ts[i], show_completed)}
           upto == IF bad = {} THEN Len(ts) ELSE Min(bad) - 1
           visible == SelectSeq(SubSeq(ts, 1, upto),
                                LAMBDA t : ~Hidden(t, show_completed))
       IN [ok |-> bad = {},
           rows |-> [i \in Indices(visible) |-> Row(visible[i], clock)],
           out |-> IF bad = {} THEN "TO-DO LIST" ELSE "KeyError"]

\* The element a scan for task_id stops at: the first that has the id or
\* that is no task (0 when the scan reaches the end).
ScanStop(ts, task_id) ==
  LET stops == {i \in Indices(ts) : ~IsTask(ts[i]) \/ ts[i].id = task_id}
  IN IF stops = {} THEN 0 ELSE Min(stops)

\* complete_task were it to take task_id for a position in the list.
complete_task_by_position(ts, task_id) ==
  IF task_id \in Indices(ts)
  THEN [ok |-> TRUE,
        tasks |-> [ts EXCEPT ![task_id].completed = TRUE],
        out |-> "Completed task"]
  ELSE [ok |-> TRUE, tasks |-> ts, out |-> "Task not found!"]

\* complete_task were it to flip the flag (completed = not completed).
complete_task_toggling(ts, task_id) ==
  LET i == ScanStop(ts, task_id)
  IN CASE i = 0 -> [ok |-> TRUE, tasks |-> ts, out |-> "Task not found!"]
       [] i # 0 /\ ~IsTask(ts[i]) -> [ok |-> FALSE, tasks |-> ts, out |-> "KeyError"]
       [] OTHER -> [ok |-> TRUE,
                    tasks |-> [ts EXCEPT ![i].completed = ~@],
                    out |-> "Completed task"]

\* complete_task
complete_task(ts, task_id) ==
  LET i == ScanStop(ts, task_id)
  IN CASE i = 0 -> [ok |-> TRUE, tasks |-> ts, out |-> "Task not found!"]
       [] i # 0 /\ ~IsTask(ts[i]) -> [ok |-> FALSE, tasks |-> ts, out |-> "KeyError"]
       [] OTHER -> [ok |-> TRUE,
                    tasks |-> [ts EXCEPT ![i].completed = TRUE],
                    out |-> "Completed task"]

\* delete_task were it to take task_id for a position in the list
\* (del self.tasks[task_id - 1]).
delete_task_by_position(ts, task_id) ==
  IF task_id \in Indices(ts)
  THEN [ok |-> TRUE,
        tasks |-> SubSeq(ts, 1, task_id - 1) \o SubSeq(ts, task_id + 1, Len(ts)),
        out |-> "Deleted task ID"]
  ELSE [ok |-> TRUE, tasks |-> ts, out |-> "Deleted task ID"]

\* delete_task
delete_task(ts, task_id) ==
  IF \E i \in Indices(ts) : ~IsTask(ts[i])
  THEN [ok |-> FALSE, tasks |-> ts, out |-> "KeyError"]
  ELSE [ok |-> TRUE,
        tasks |-> SelectSeq(ts, LAMBDA t : t.id # task_id),
        out |-> "Deleted task ID"]

\* edit_task were it to put a fresh pending task in the place of the one it
\* finds.
edit_task_rebuilding(ts, task_id, new_description) ==
  LET i == ScanStop(ts, task_id)
  IN CASE i = 0 -> [ok |-> TRUE, tasks |-> ts, out |-> "Task not found!"]
       [] i # 0 /\ ~IsTask(ts[i]) -> [ok |-> FALSE, tasks |-> ts, out |-> "KeyError"]
       [] OTHER -> [ok |-> TRUE,
                    tasks |-> [ts EXCEPT ![i].description = new_description,
                                         ![i].completed = FALSE],
                    out |-> "Updated task"]

\* edit_task
edit_task(ts, task_id, new_description) ==
  LET i == ScanStop(ts, task_id)
  IN CASE i = 0 -> [ok |-> TRUE, tasks |-> ts, out |-> "Task not found!"]
       [] i # 0 /\ ~IsTask(ts[i]) -> [ok |-> FALSE, tasks |-> ts, out |-> "KeyError"]
       [] OTHER -> [ok |-> TRUE,
                    tasks |-> [ts EXCEPT ![i].description = new_description],
                    out |-> "Updated task"]

\* get_user_input were it to print the options message and return the
\* value all the same (the `continue` left out).
get_user_input_unchecked(line, options) ==
  LET user_input == strip(line)
  IN CASE user_input = "" ->
            [ok |-> FALSE, value |-> "", out |-> "Input cannot be empty!"]
       [] OTHER ->
            [ok |-> TRUE, value |-> user_input, out |-> ""]

\* get_user_input: ok is FALSE where it prints a message and asks again.
get_user_input(line, options) ==
  LET user_input == strip(line)
  IN CASE user_input = "" ->
            [ok |-> FALSE, value |-> "", out |-> "Input cannot be empty!"]
       [] options # {} /\ lower(user_input) \notin options ->
            [ok |-> FALSE, value |-> "", out |-> "Please choose from"]
       [] OTHER ->
            [ok |-> TRUE, value |-> user_input, out |-> ""]

----------------------------------------------------------------------------
\* main(): the menu loop, one action per prompt answered.

MenuOptions == {ToString(i) : i \in 0..7}
PriorityOptions == {"high", "medium", "low"}
YesNoOptions == {"y", "n"}

\* The locals of main() that live from one prompt of a sub-flow to the next.
NoLocals == [description |-> "", priority |-> "", task_id |-> 0]

\* The prompts that read through get_user_input, and the options of each.
OptionsAt(at) ==
  CASE at = "Menu" -> MenuOptions
    [] at = "AddPriority" -> PriorityOptions
    [] at \in {"ViewPrompt", "ExitPrompt"} -> YesNoOptions
    [] OTHER -> {}

ValidatedPrompts ==
  {"Menu", "AddDescription", "AddPriority", "ViewPrompt", "CompleteId",
   "EditId", "EditDescription", "DeleteId", "ExitPrompt"}

\* The menu choice a line makes: "" when get_user_input asks again.
Choice(line) ==
  LET r == get_user_input(line, MenuOptions)
  IN IF r.ok THEN r.value ELSE ""

\* The history: whether it is kept; the ids of the tasks delete_task has
\* removed; whether the last complete_task call found its task completed
\* already.
NoHistory == [kept |-> FALSE, deleted |-> {}, repeated |-> FALSE]

\* The history after delete_task(task_id) has removed a task.
Deleting(h, task_id) ==
  IF h.kept THEN [h EXCEPT !.deleted = @ \cup {task_id}] ELSE h

\* The history after complete_task(task_id) on the list ts.
Completing(h, ts, task_id) ==
  IF h.kept
  THEN [h EXCEPT !.repeated =
          LET i == ScanStop(ts, task_id)
          IN i # 0 /\ IsTask(ts[i]) /\ ts[i].completed]
  ELSE h

Init ==
  /\ tasks = <<>>
  /\ file = MissingFile
  /\ pc = "Start"
  /\ locals = NoLocals
  /\ now = [day |-> 1, tod |-> 1]
  /\ out = ""
  /\ shown = <<>>
  /\ history = NoHistory

\* todo = TodoList()
Construct ==
  /\ pc = "Start"
  /\ LET r == load_tasks(<<>>, file)
     IN /\ tasks' = r.tasks
        /\ out' = r.out
        /\ pc' = IF r.ok THEN "Menu" ELSE "Crashed"
  /\ shown' = <<>>
  /\ UNCHANGED <<history, file, locals, now>>

\* get_user_input prints its message and asks again.
Reprompt(line) ==
  /\ pc \in ValidatedPrompts
  /\ LET r == get_user_input(line, OptionsAt(pc))
     IN /\ ~r.ok
        /\ out' = r.out
  /\ shown' = <<>>
  /\ UNCHANGED <<history, tasks, file, pc, locals, now>>

\* choice == '1'
ChooseAdd(line) ==
  /\ pc = "Menu"
  /\ Choice(line) = "1"
  /\ Len(tasks) < MaxTasks
  /\ pc' = "AddDescription"
  /\ out' = "ADD NEW TASK"
  /\ shown' = <<>>
  /\ UNCHANGED <<history, tasks, file, locals, now>>

AddDescription(line) ==
  /\ pc = "AddDescription"
  /\ LET r == get_user_input(line, {})
     IN /\ r.ok
        /\ locals' = [locals EXCEPT !.description = r.value]
        /\ out' = r.out
  /\ pc' = "AddPriority"
  /\ shown' = <<>>
  /\ UNCHANGED <<history, tasks, file, now>>

AddPriority(line) ==
  /\ pc = "AddPriority"
  /\ LET r == get_user_input(line, PriorityOptions)
     IN /\ r.ok
        /\ locals' = [locals EXCEPT !.priority = r.value]
        /\ out' = r.out
  /\ pc' = "AddDueDate"
  /\ shown' = <<>>
  /\ UNCHANGED <<history, tasks, file, now>>

\* The due date the Add sub-flow passes to add_task for the line typed.
ValidatedDueDate(line) ==
  IF line # "" /\ ~strptime(line).ok THEN <<>> ELSE <<line>>

AddDueDate(line) ==
  /\ pc = "AddDueDate"
  /\ LET r == add_task(tasks, locals.description, locals.priority,
                       ValidatedDueDate(line), now)
     IN /\ tasks' = r.tasks
        /\ out' = r.out
  /\ pc' = "Menu"
  /\ locals' = NoLocals
  /\ shown' = <<>>
  /\ UNCHANGED <<history, file, now>>

\* choice == '2'
ChooseView(line) ==
  /\ pc = "Menu"
  /\ Choice(line) = "2"
  /\ pc' = "ViewPrompt"
  /\ out' = ""
  /\ shown' = <<>>
  /\ UNCHANGED <<history, tasks, file, locals, now>>

ViewPrompt(line) ==
  /\ pc = "ViewPrompt"
  /\ LET r == get_user_input(line, YesNoOptions)
         d == display_tasks(tasks, lower(r.value) = "y", now)
     IN /\ r.ok
        /\ shown' = d.rows
        /\ out' = d.out
        /\ pc' = IF d.ok THEN "Menu" ELSE "Crashed"
  /\ UNCHANGED <<history, tasks, file, locals, now>>

\* choice == '3', '4' or '5': the list is displayed, then the id is asked.
ChooseById(line) ==
  /\ pc = "Menu"
  /\ Choice(line) \in {"3", "4", "5"}
  /\ LET d == display_tasks(tasks, FALSE, now)
     IN /\ shown' = d.rows
        /\ out' = d.out
        /\ pc' = CASE ~d.ok -> "Crashed"
                   [] Choice(line) = "3" -> "CompleteId"
                   [] Choice(line) = "4" -> "EditId"
                   [] OTHER -> "DeleteId"
  /\ UNCHANGED <<history, tasks, file, locals, now>>

CompleteId(line) ==
  /\ pc = "CompleteId"
  /\ LET r == get_user_input(line, {})
         n == int(r.value)
         c == complete_task(tasks, n.value)
     IN /\ r.ok
        /\ IF n.ok
           THEN /\ tasks' = c.tasks
                /\ out' = c.out
                /\ pc' = IF c.ok THEN "Menu" ELSE "Crashed"
           ELSE /\ tasks' = tasks
                /\ out' = "ValueError"
                /\ pc' = "Crashed"
  /\ shown' = <<>>
  /\ history' = IF int(strip(line)).ok
                THEN Completing(history, tasks, int(strip(line)).value)
                ELSE history
  /\ UNCHANGED <<file, locals, now>>

EditId(line) ==
  /\ pc = "EditId"
  /\ LET r == get_user_input(line, {})
         n == int(r.value)
     IN /\ r.ok
        /\ IF n.ok
           THEN /\ locals' = [locals EXCEPT !.task_id = n.value]
                /\ out' = ""
                /\ pc' = "EditDescription"
           ELSE /\ locals' = locals
                /\ out' = "ValueError"
                /\ pc' = "Crashed"
  /\ shown' = <<>>
  /\ UNCHANGED <<history, tasks, file, now>>

EditDescription(line) ==
  /\ pc = "EditDescription"
  /\ LET r == get_user_input(line, {})
         e == edit_task(tasks, locals.task_id, r.value)
     IN /\ r.ok
        /\ tasks' = e.tasks
        /\ out' = e.out
        /\ pc' = IF e.ok THEN "Menu" ELSE "Crashed"
  /\ locals' = NoLocals
  /\ shown' = <<>>
  /\ UNCHANGED <<history, file, now>>

DeleteId(line) ==
  /\ pc = "DeleteId"
  /\ LET r == get_user_input(line, {})
         n == int(r.value)
         d == delete_task(tasks, n.value)
     IN /\ r.ok
        /\ IF n.ok
           THEN /\ tasks' = d.tasks
                /\ out' = d.out
                /\ pc' = IF d.ok THEN "Menu" ELSE "Crashed"
           ELSE /\ tasks' = tasks
                /\ out' = "ValueError"
                /\ pc' = "Crashed"
  /\ shown' = <<>>
  /\ history' = IF int(strip(line)).ok /\ tasks' # tasks
                THEN Deleting(history, int(strip(line)).value)
                ELSE history
  /\ UNCHANGED <<file, locals, now>>

\* choice == '6'
ChooseSave(line, io) ==
  /\ pc = "Menu"
  /\ Choice(line) = "6"
  /\ LET r == save_tasks(tasks, file, io)
     IN /\ file' = r.file
        /\ out' = r.out
        /\ pc' = IF r.ok THEN "Menu" ELSE "Crashed"
  /\ shown' = <<>>
  /\ UNCHANGED <<history, tasks, locals, now>>

\* choice == '7'
ChooseLoad(line) ==
  /\ pc = "Menu"
  /\ Choice(line) = "7"
  /\ LET r == load_tasks(tasks, file)
     IN /\ tasks' = r.tasks
        /\ out' = r.out
        /\ pc' = IF r.ok THEN "Menu" ELSE "Crashed"
  /\ shown' = <<>>
  /\ UNCHANGED <<history, file, locals, now>>

\* choice == '0'
ChooseExit(line) ==
  /\ pc = "Menu"
  /\ Choice(line) = "0"
  /\ pc' = "ExitPrompt"
  /\ out' = ""
  /\ shown' = <<>>
  /\ UNCHANGED <<history, tasks, file, locals, now>>

\* The answer to "Save before exiting?": save_tasks runs only on 'y', so io
\* matters only there (it is pinned on the other branch).
ExitPrompt(line, io) ==
  /\ pc = "ExitPrompt"
  /\ LET r == get_user_input(line, YesNoOptions)
         s == save_tasks(tasks, file, io)
     IN /\ r.ok
        /\ IF lower(r.value) = "y"
           THEN /\ file' = s.file
                /\ out' = IF s.ok THEN "Goodbye!" ELSE s.out
                /\ pc' = IF s.ok THEN "Exited" ELSE "Crashed"
           ELSE /\ file' = file
                /\ io = "ok"
                /\ out' = "Goodbye!"
                /\ pc' = "Exited"
  /\ shown' = <<>>
  /\ UNCHANGED <<history, tasks, locals, now>>

\* Time passes while the program waits at a prompt.
Tick ==
  /\ pc \notin {"Start", "Exited", "Crashed"}
  /\ \/ now.tod = 0 /\ now' = [now EXCEPT !.tod = 1]
     \/ now.tod = 1 /\ now.day < MaxDay /\ now' = [day |-> now.day + 1, tod |-> 0]
  /\ UNCHANGED <<history, tasks, file, pc, locals, out, shown>>

----------------------------------------------------------------------------
\* The lines typed.

MenuLines == MenuOptions \cup {"8", ""}
DescriptionLines == {"milk", "eggs", " "}
PriorityLines == {"High", "urgent"}
DueLines == {"", "soon"}
YesNoLines == {"y", "N", "maybe"}
IdLines == {ToString(n) : n \in 1..(MaxTasks + 1)} \cup {"x"}
IoOutcomes == {"ok", "denied", "cut"}

\* The store driven through the menu: tasks are added, viewed, completed,
\* edited and deleted, and the session is left.
Next ==
  \/ Construct
  \/ \E line \in MenuLines \cup DescriptionLines \cup PriorityLines \cup YesNoLines :
       Reprompt(line)
  \/ \E line \in MenuLines : ChooseAdd(line)
  \/ \E line \in DescriptionLines : AddDescription(line)
  \/ \E line \in PriorityLines : AddPriority(line)
  \/ \E line \in DueLines : AddDueDate(line)
  \/ \E line \in MenuLines : ChooseView(line)
  \/ \E line \in YesNoLines : ViewPrompt(line)
  \/ \E line \in MenuLines : ChooseById(line)
  \/ \E line \in IdLines : CompleteId(line)
  \/ \E line \in IdLines : EditId(line)
  \/ \E line \in DescriptionLines : EditDescription(line)
  \/ \E line \in IdLines : DeleteId(line)
  \/ \E line \in MenuLines : ChooseExit(line)
  \/ \E line \in YesNoLines, io \in IoOutcomes : ExitPrompt(line, io)

Spec == Init /\ [][Next]_vars

----------------------------------------------------------------------------
\* Properties of the store (specification Spec).

\* The step in which delete_task(n) ran and returned.
DeleteStep(line) == DeleteId(line) /\ out' = "Deleted task ID"

\* The step in which complete_task(n) ran and found the task.
CompleteStep(line) == CompleteId(line) /\ out' = "Completed task"

\* C1: no two tasks held in the store at the same time have the same id.
\* (The claim as stated; add_task numbers a task len+1, so it fails after a
\* delete.)
UniqueIds ==
  \A i, j \in Indices(tasks) : i # j => tasks[i].id # tasks[j].id

\* C2: delete(id) removes exactly one task when a task has the id and none
\* when no task has it, so the size decreases by at most one. (The claim as
\* stated; it fails where two tasks share the id.)
DeleteRemovesOne ==
  [][\A line \in IdLines :
       DeleteStep(line) =>
         LET n == int(strip(line)).value
         IN /\ Len(tasks') >= Len(tasks) - 1
            /\ (\E i \in Indices(tasks) : tasks[i].id = n) => Len(tasks') = Len(tasks) - 1
            /\ (\A i \in Indices(tasks) : tasks[i].id # n) => tasks' = tasks]_vars

\* C3: after complete(id) succeeds, the listing without completed tasks has
\* no row with that id, and the listing with them has a row with that id
\* marked done. (The claim as stated; it fails where two tasks share the id.)
CompletedLeavesPendingList ==
  [][\A line \in IdLines :
       CompleteStep(line) =>
         LET n == int(strip(line)).value
             pending == display_tasks(tasks', FALSE, now').rows
             all == display_tasks(tasks', TRUE, now').rows
         IN /\ \A i \in Indices(pending) : pending[i].id # n
            /\ \E i \in Indices(all) : all[i].id = n /\ all[i].status = "Done"]_vars

\* C4: the listing with completed tasks shows the tasks in the order they
\* were added: an add puts its task's row after all rows there were, and
\* complete, edit and delete keep the rows that stay in the order they had.
ListedInOrderAdded ==
  [][LET before == display_tasks(tasks, TRUE, now).rows
         after == display_tasks(tasks', TRUE, now').rows
     IN /\ \A line \in DueLines :
             AddDueDate(line) =>
               /\ Len(after) = Len(before) + 1
               /\ SubSeq(after, 1, Len(before)) = before
               /\ after[Len(after)].description = locals.description
               /\ after[Len(after)].status = "Pending"
        /\ \A line \in IdLines :
             CompleteId(line) \/ EditId(line) =>
               [i \in Indices(after) |-> after[i].id]
                 = [i \in Indices(before) |-> before[i].id]
        /\ \A line \in DescriptionLines :
             EditDescription(line) =>
               [i \in Indices(after) |-> after[i].id]
                 = [i \in Indices(before) |-> before[i].id]
        /\ \A line \in IdLines :
             DeleteStep(line) =>
               after = SelectSeq(before, LAMBDA r : r.id # int(strip(line)).value)]_vars

\* Witness of C4: a second task has been added after a different first one.
TwoAddedInOrder ==
  /\ pc = "Menu"
  /\ out = "Added task"
  /\ Len(tasks) = 2
  /\ tasks[1].description # tasks[2].description

\* The loop has ended: by the break of choice 0, or by an exception that
\* left main().
Ended(at) == at \in {"Exited", "Crashed"}

\* C7: the menu loop ends only from the exit choice; no input at a prompt of
\* the other sub-flows, and no outcome of them, ends it. (The claim as
\* stated; int() of an id that is no number raises out of main().)
LoopEndsOnlyByExit ==
  [][(~Ended(pc) /\ Ended(pc')) => pc = "ExitPrompt"]_vars

\* C9: complete(id) and edit(id, new_description) with an id no task has
\* print "Task not found!" and leave the collection as it was.
AbsentIdNotFound ==
  [][/\ \A line \in IdLines :
          (CompleteId(line) /\ int(strip(line)).ok
             /\ \A i \in Indices(tasks) : tasks[i].id # int(strip(line)).value)
          => (out' = "Task not found!" /\ tasks' = tasks /\ pc' = "Menu")
     /\ \A line \in DescriptionLines :
          (EditDescription(line)
             /\ \A i \in Indices(tasks) : tasks[i].id # locals.task_id)
          => (out' = "Task not found!" /\ tasks' = tasks /\ pc' = "Menu")]_vars

\* Witness of C9: an id no task has was asked of a store that holds tasks,
\* one of them at a position that is no id of the store.
NotFoundOnHeldTasks ==
  /\ pc = "Menu"
  /\ out = "Task not found!"
  /\ tasks # <<>>
  /\ \E i \in Indices(tasks) : \A j \in Indices(tasks) : tasks[j].id # i

\* Whether a due date is absent (None) or a YYYY-MM-DD calendar date.
AbsentOrIsoDate(v) == v = <<>> \/ \E d \in DayNumbers : v = <<DateText(d)>>

\* C14: a task created through the Add sub-flow has a due date that is
\* absent or a valid YYYY-MM-DD date; an empty line and a line that is no
\* date both store the task with an absent due date, without asking again.
\* (The claim as stated; the empty line skips the validation and is stored
\* as the empty string.)
AddedDueDateAbsentOrValid ==
  [][\A line \in DueLines :
       AddDueDate(line) =>
         LET added == tasks'[Len(tasks')]
         IN /\ pc' = "Menu"
            /\ Len(tasks') = Len(tasks) + 1
            /\ AbsentOrIsoDate(added.due_date)
            /\ (line = "" \/ ~strptime(line).ok) => added.due_date = <<>>]_vars

\* C15: edit(id, new_description) on an id the store has changes the
\* description of one task with that id and nothing else: that task's other
\* fields, every other task, the order and the size stay as they were.
EditChangesOnlyDescription ==
  [][\A line \in DescriptionLines :
       (EditDescription(line) /\ \E i \in Indices(tasks) : tasks[i].id = locals.task_id)
       => /\ out' = "Updated task"
          /\ Len(tasks') = Len(tasks)
          /\ \E i \in Indices(tasks) :
               /\ tasks[i].id = locals.task_id
               /\ tasks'[i].description = strip(line)
               /\ tasks'[i].id = tasks[i].id
               /\ tasks'[i].priority = tasks[i].priority
               /\ tasks'[i].due_date = tasks[i].due_date
               /\ tasks'[i].completed = tasks[i].completed
               /\ tasks'[i].created_at = tasks[i].created_at
               /\ \A j \in Indices(tasks) \ {i} : tasks'[j] = tasks[j]]_vars

\* Witness of C15: a completed task has been given a new description while
\* another task is in the store.
EditedCompletedTask ==
  /\ pc = "Menu"
  /\ out = "Updated task"
  /\ Len(tasks) = 2
  /\ \E i \in Indices(tasks) : tasks[i].completed /\ tasks[i].description = "eggs"
  /\ \E i \in Indices(tasks) : tasks[i].description = "milk"

\* The tasks of a list whose id differs from n, in the order of the list.
Others(ts, n) == SelectSeq(ts, LAMBDA t : t.id # n)

\* C17: delete(id) leaves every task whose id differs from the given id in
\* the collection, with its fields unchanged and in the same relative order.
DeleteKeepsOthers ==
  [][\A line \in IdLines :
       DeleteStep(line) =>
         LET n == int(strip(line)).value
         IN /\ Others(tasks', n) = Others(tasks, n)
            /\ Len(tasks') >= Len(Others(tasks, n))]_vars

\* Witness of C17: a delete has removed a task and left another one.
DeletedOneKeptOne ==
  /\ pc = "Menu"
  /\ out = "Deleted task ID"
  /\ Len(tasks) = 1
  /\ tasks[1].id = 2

----------------------------------------------------------------------------
\* The store and its file: todo.json holds whatever was left there, and the
\* session adds, completes, edits, deletes, saves and loads.

FileContents == {MissingFile, GarbledFile, UndecodableFile, JsonFile(JunkDoc)}

FileDescriptionLines == {"milk", " "}
FileEditLines == {"eggs"}
FilePriorityLines == {"High"}
FileYesNoLines == {"y", "maybe"}
FileIdLines == {"1", "x"}

InitFile ==
  /\ tasks = <<>>
  /\ file \in FileContents
  /\ pc = "Start"
  /\ locals = NoLocals
  /\ now = [day |-> 1, tod |-> 1]
  /\ out = ""
  /\ shown = <<>>
  /\ history = NoHistory

NextFile ==
  \/ Construct
  \/ \E line \in MenuLines \cup FileDescriptionLines \cup FileYesNoLines : Reprompt(line)
  \/ \E line \in MenuLines : ChooseAdd(line)
  \/ \E line \in FileDescriptionLines : AddDescription(line)
  \/ \E line \in FilePriorityLines : AddPriority(line)
  \/ \E line \in DueLines : AddDueDate(line)
  \/ \E line \in MenuLines : ChooseView(line)
  \/ \E line \in FileYesNoLines : ViewPrompt(line)
  \/ \E line \in MenuLines : ChooseById(line)
  \/ \E line \in FileIdLines : CompleteId(line)
  \/ \E line \in FileIdLines : EditId(line)
  \/ \E line \in FileEditLines : EditDescription(line)
  \/ \E line \in FileIdLines : DeleteId(line)
  \/ \E line \in MenuLines, io \in IoOutcomes : ChooseSave(line, io)
  \/ \E line \in MenuLines : ChooseLoad(line)
  \/ \E line \in MenuLines : ChooseExit(line)
  \/ \E line \in FileYesNoLines, io \in IoOutcomes : ExitPrompt(line, io)

SpecFile == InitFile /\ [][NextFile]_vars

----------------------------------------------------------------------------
\* Properties of the store and its file (specification SpecFile).

\* C5: save followed by load from the same file leaves the collection that
\* was saved: once save_tasks has written the file, load_tasks of that file
\* returns and gives the tasks in memory, in order and field by field.
SaveThenLoadRestores ==
  out = "Tasks saved successfully!" =>
    LET r == load_tasks(<<>>, file)
    IN /\ r.ok
       /\ Len(r.tasks) = Len(tasks)
       /\ \A i \in Indices(tasks) : r.tasks[i] = tasks[i]

\* Witness of C5: a load has read back a saved list of two tasks, one
\* completed, one with no due date (None) and one with a due date string.
LoadedWhatWasSaved ==
  /\ pc = "Menu"
  /\ out = "Tasks loaded successfully!"
  /\ file = JsonFile(json_dump(tasks))
  /\ Len(tasks) = 2
  /\ \A i \in Indices(tasks) : IsTask(tasks[i])
  /\ \E i, j \in Indices(tasks) :
       /\ tasks[i].completed
       /\ tasks[i].due_date = <<>>
       /\ tasks[j].due_date # <<>>

\* Whether todo.json is missing or holds something else than a JSON list of
\* task records.
MissingOrMalformed(f) ==
  \/ f.st # "json"
  \/ \E i \in Indices(f.doc) : DOMAIN f.doc[i] # TaskKeys

\* A step in which load_tasks ran: in the constructor or from the menu.
LoadStep == Construct \/ \E line \in MenuLines : ChooseLoad(line)

\* C6: load from a missing or malformed source leaves an empty collection
\* and surfaces no error. (The claim as stated; load_tasks resets only on
\* FileNotFoundError and JSONDecodeError.)
MalformedLoadsEmpty ==
  [][(LoadStep /\ MissingOrMalformed(file)) =>
       (tasks' = <<>> /\ pc' = "Menu")]_vars

\* A step in which the Save choice ran save_tasks and the write failed.
FailedSaveStep ==
  \E line \in MenuLines, io \in IoOutcomes \ {"ok"} : ChooseSave(line, io)

\* C8: when an explicit save fails, the loop goes on to the menu with the
\* collection it had. (The claim as stated; the OSError leaves main().)
FailedSaveKeepsSession ==
  [][FailedSaveStep => (pc' = "Menu" /\ tasks' = tasks)]_vars

\* A step in which save_tasks ran: the Save choice, or 'y' at the exit.
SaveAttempt ==
  \/ \E line \in MenuLines, io \in IoOutcomes : ChooseSave(line, io)
  \/ \E line \in FileYesNoLines, io \in IoOutcomes :
       ExitPrompt(line, io) /\ lower(strip(line)) = "y"

\* C16: the file changes only in a step that saves; add, complete, edit,
\* delete, view and load leave it as it is, so a load from the menu puts in
\* memory what the file holds (the last save), whatever was done since.
FileChangesOnlyOnSave ==
  [][/\ file' # file => SaveAttempt
     /\ \A line \in MenuLines :
          (ChooseLoad(line) /\ pc' = "Menu") =>
            /\ file' = file
            /\ Len(tasks') = Len(file.doc)
            /\ tasks' = IF file.st = "json" THEN json_load(file.doc) ELSE <<>>]_vars

\* Witness of C16: a load from the menu has put the one saved, pending task
\* back in memory.
LoadedLastSave ==
  /\ pc = "Menu"
  /\ out = "Tasks loaded successfully!"
  /\ file.st = "json"
  /\ Len(tasks) = 1
  /\ tasks = json_load(file.doc)
  /\ IsTask(tasks[1])
  /\ ~tasks[1].completed

----------------------------------------------------------------------------
\* The store and the clock: tasks with and without a due date are added,
\* completed and displayed while the days pass.

ClockDueLines == {"2000-01-02", "soon"}
ClockDescriptionLines == {"milk"}
ClockPriorityLines == {"low"}
ClockYesNoLines == {"Y", "n"}

NextClock ==
  \/ Construct
  \/ \E line \in MenuLines : ChooseAdd(line)
  \/ \E line \in ClockDescriptionLines : AddDescription(line)
  \/ \E line \in ClockPriorityLines : AddPriority(line)
  \/ \E line \in ClockDueLines : AddDueDate(line)
  \/ \E line \in MenuLines : ChooseView(line)
  \/ \E line \in ClockYesNoLines : ViewPrompt(line)
  \/ \E line \in MenuLines : ChooseById(line)
  \/ \E line \in IdLines : CompleteId(line)
  \/ Tick

SpecClock == Init /\ [][NextClock]_vars

\* Whether a printed row reports its task overdue.
ReportedOverdue(row) == \E d \in Texts : row.due_date = "OVERDUE: " \o d

\* A step in which display_tasks(show_completed) printed the list.
RenderStep(show_completed) ==
  \/ \E line \in ClockYesNoLines :
       ViewPrompt(line) /\ (lower(strip(line)) = "y") = show_completed
  \/ ~show_completed /\ \E line \in MenuLines : ChooseById(line)

\* C10: a rendered task is reported overdue exactly when it has a due date,
\* is not completed and its due date is a calendar day before the current
\* one. (The claim as stated; display_tasks compares the due date's midnight
\* with the current date and time.)
OverdueByCalendarDay ==
  [][\A show_completed \in BOOLEAN :
       RenderStep(show_completed) =>
         LET visible == SelectSeq(tasks, LAMBDA t : ~Hidden(t, show_completed))
         IN /\ Len(shown') = Len(visible)
            /\ \A i \in Indices(visible) :
                 ReportedOverdue(shown'[i]) <=>
                   /\ Truthy(visible[i].due_date)
                   /\ ~visible[i].completed
                   /\ strptime(visible[i].due_date[1]).value.day < now.day]_vars

----------------------------------------------------------------------------
\* The prompts: every kind of line is typed at the prompts that take one of
\* a set of options.

PromptLines ==
  MenuOptions \cup {"", " ", "8", " 1 ", "High", "LOW", "medium", "urgent",
                    "Y", " y ", "n", "maybe"}
PromptDescriptionLines == {"milk"}
PromptDueLines == {"soon"}

NextPrompt ==
  \/ Construct
  \/ \E line \in PromptLines : Reprompt(line)
  \/ \E line \in PromptLines : ChooseAdd(line)
  \/ \E line \in PromptDescriptionLines : AddDescription(line)
  \/ \E line \in PromptLines : AddPriority(line)
  \/ \E line \in PromptDueLines : AddDueDate(line)
  \/ \E line \in PromptLines : ChooseView(line)
  \/ \E line \in PromptLines : ViewPrompt(line)
  \/ \E line \in PromptLines : ChooseById(line)
  \/ \E line \in FileIdLines : CompleteId(line)
  \/ \E line \in FileIdLines : EditId(line)
  \/ \E line \in PromptDescriptionLines : EditDescription(line)
  \/ \E line \in FileIdLines : DeleteId(line)
  \/ \E line \in PromptLines, io \in IoOutcomes : ChooseSave(line, io)
  \/ \E line \in PromptLines : ChooseLoad(line)
  \/ \E line \in PromptLines : ChooseExit(line)
  \/ \E line \in PromptLines, io \in IoOutcomes : ExitPrompt(line, io)

SpecPrompt == Init /\ [][NextPrompt]_vars

\* The prompts that take one of an enumerated set of options.
EnumeratedPrompts == {"Menu", "AddPriority", "ViewPrompt", "ExitPrompt"}

\* Whether a line, stripped, is not empty and, lowercased, one of the options.
InOptions(line, options) == strip(line) # "" /\ lower(strip(line)) \in options

\* A step in which a prompt with options returned the line to main().
AnswerStep(line) ==
  \/ ChooseAdd(line) \/ ChooseView(line) \/ ChooseById(line)
  \/ ChooseLoad(line) \/ ChooseExit(line)
  \/ \E io \in IoOutcomes : ChooseSave(line, io)
  \/ AddPriority(line)
  \/ ViewPrompt(line)
  \/ \E io \in IoOutcomes : ExitPrompt(line, io)

\* C12: a prompt with an enumerated option set returns only a line that,
\* stripped, is not empty and, lowercased, is one of its options; on the
\* empty line and on a line outside the set it asks again, and while it asks
\* the tasks and the file stay as they are.
EnumeratedPromptAsksUntilValid ==
  [][(pc \in EnumeratedPrompts) =>
       ((\E line \in PromptLines : AnswerStep(line) \/ Reprompt(line))
        /\ (\A line \in PromptLines :
              /\ AnswerStep(line) => InOptions(line, OptionsAt(pc))
              /\ Reprompt(line) =>
                   (/\ ~InOptions(line, OptionsAt(pc))
                    /\ pc' = pc
                    /\ tasks' = tasks
                    /\ file' = file
                    /\ locals' = locals
                    /\ out' \in {"Input cannot be empty!", "Please choose from"})
              /\ AddPriority(line) =>
                   (/\ locals'.priority # ""
                    /\ lower(locals'.priority) \in PriorityOptions)))]_vars

\* Witness of C12: the priority prompt has asked again for a line outside
\* its options, with a task in the store and a file written.
AskedPriorityAgain ==
  /\ pc = "AddPriority"
  /\ out = "Please choose from"
  /\ tasks # <<>>
  /\ file.st = "json"

----------------------------------------------------------------------------
\* The store with its history kept: tasks are added, completed and deleted.

HistoryMenuLines == {"1", "3", "5"}

InitHistory ==
  /\ tasks = <<>>
  /\ file = MissingFile
  /\ pc = "Start"
  /\ locals = NoLocals
  /\ now = [day |-> 1, tod |-> 1]
  /\ out = ""
  /\ shown = <<>>
  /\ history = [NoHistory EXCEPT !.kept = TRUE]

NextHistory ==
  \/ Construct
  \/ \E line \in HistoryMenuLines : ChooseAdd(line)
  \/ \E line \in PromptDescriptionLines : AddDescription(line)
  \/ \E line \in ClockPriorityLines : AddPriority(line)
  \/ \E line \in PromptDueLines : AddDueDate(line)
  \/ \E line \in HistoryMenuLines : ChooseById(line)
  \/ \E line \in IdLines : CompleteId(line)
  \/ \E line \in IdLines : DeleteId(line)

SpecHistory == InitHistory /\ [][NextHistory]_vars

\* C11: the id add gives to a new task is the id of no task deleted
\* earlier. (The claim as stated; add_task numbers the task len+1, which a
\* delete brings back to an id already given.)
NewIdNeverDeleted ==
  [][\A line \in PromptDueLines :
       AddDueDate(line) => tasks'[Len(tasks')].id \notin history.deleted]_vars

\* C13: complete(id) is idempotent: after a complete(id) call a second one
\* would return without an error and leave the collection the first left,
\* and a call that finds its task completed already reports it completed
\* and changes nothing.
CompleteIdempotent ==
  [][\A line \in IdLines :
       (CompleteId(line) /\ int(strip(line)).ok) =>
         LET n == int(strip(line)).value
             again == complete_task(tasks', n)
             i == ScanStop(tasks, n)
         IN /\ pc' = "Menu"
            /\ again.ok
            /\ again.tasks = tasks'
            /\ again.out = out'
            /\ (i # 0 /\ tasks[i].completed) =>
                 (tasks' = tasks /\ out' = "Completed task")]_vars

\* Witness of C13: complete has just been called on a task that was
\* completed already, with a pending task beside it.
CompletedAgain ==
  /\ pc = "Menu"
  /\ out = "Completed task"
  /\ history.repeated
  /\ \E i \in Indices(tasks) : ~tasks[i].completed

====
